---- MODULE Spec2Model ----
(***************************************************************************)
(* Model of MacCormackStepper (src/macCormack_stepper.py): the run() loop  *)
(* with its CFL timestep, final-step clamp, predictor, boundary calls,     *)
(* corrector and history recording.                                        *)
(*                                                                         *)
(* Python floats are modelled as a small binary floating-point format:     *)
(* a finite value is an integer count of 1/Scale units whose significand   *)
(* has at most Prec bits; every arithmetic result is rounded to nearest,   *)
(* ties to even.  The exponent range is unbounded above (no overflow), so  *)
(* inf and nan arise only from inf inputs and from division by zero.       *)
(* numpy arrays live in a heap of buffers addressed by identifiers, so     *)
(* that in-place writes and copies are distinguishable.                    *)
(***************************************************************************)
EXTENDS Integers, Sequences, FiniteSets, TLC

\* ------------------------------------------------------------------ bounds
Prec == 3
MaxSteps == 6
MaxNx == 3

\* ------------------------------------------------- floating-point numbers
Scale == 8

Fin(n) == [k |-> "fin", v |-> n]
PInf == [k |-> "inf", v |-> 1]
NInf == [k |-> "inf", v |-> -1]
NaN == [k |-> "nan", v |-> 0]

IsFin(a) == a.k = "fin"
IsNaN(a) == a.k = "nan"
IsInf(a) == a.k = "inf"

Abs(n) == IF n < 0 THEN -n ELSE n
Sgn(n) == IF n < 0 THEN -1 ELSE IF n > 0 THEN 1 ELSE 0

RECURSIVE Pow2(_)
Pow2(e) == IF e = 0 THEN 1 ELSE 2 * Pow2(e - 1)

\* smallest exponent e >= 0 with a/d < 2^(Prec+e)
RECURSIVE ExpOf(_, _, _)
ExpOf(a, d, e) == IF a < Pow2(Prec + e) * d THEN e ELSE ExpOf(a, d, e + 1)

\* a/d (a >= 0, d > 0) rounded to nearest representable, ties to even
RoundMag(a, d) ==
  LET e == ExpOf(a, d, 0)
      D == d * Pow2(e)
      q == a \div D
      r == a % D
      up == (2 * r > D) \/ (2 * r = D /\ q % 2 = 1)
  IN (IF up THEN q + 1 ELSE q) * Pow2(e)

\* n/d for integers n, d with d # 0
RoundRat(n, d) ==
  LET s == Sgn(n) * Sgn(d)
  IN s * RoundMag(Abs(n), Abs(d))

Representable(n) == RoundRat(n, 1) = n

FNeg(a) == [k |-> a.k, v |-> -a.v]

FAbs(a) == [k |-> a.k, v |-> Abs(a.v)]

FAdd(a, b) ==
  IF IsNaN(a) \/ IsNaN(b) THEN NaN
  ELSE IF IsInf(a) /\ IsInf(b) THEN (IF a.v = b.v THEN a ELSE NaN)
  ELSE IF IsInf(a) THEN a
  ELSE IF IsInf(b) THEN b
  ELSE Fin(RoundRat(a.v + b.v, 1))

FSub(a, b) == FAdd(a, FNeg(b))

FMul(a, b) ==
  IF IsNaN(a) \/ IsNaN(b) THEN NaN
  ELSE IF IsInf(a) \/ IsInf(b)
       THEN (IF a.v = 0 \/ b.v = 0 THEN NaN
             ELSE IF Sgn(a.v) * Sgn(b.v) > 0 THEN PInf ELSE NInf)
  ELSE Fin(RoundRat(a.v * b.v, Scale))

\* a / b for b # 0 (division by a zero is decided by the caller)
FDiv(a, b) ==
  IF IsNaN(a) \/ IsNaN(b) THEN NaN
  ELSE IF IsInf(a) /\ IsInf(b) THEN NaN
  ELSE IF IsInf(a) THEN (IF Sgn(a.v) * Sgn(b.v) > 0 THEN PInf ELSE NInf)
  ELSE IF IsInf(b) THEN Fin(0)
  ELSE Fin(RoundRat(a.v * Scale, b.v))

FLt(a, b) ==
  IF IsNaN(a) \/ IsNaN(b) THEN FALSE
  ELSE IF IsInf(a) THEN (a.v < 0 /\ ~(IsInf(b) /\ b.v < 0))
  ELSE IF IsInf(b) THEN b.v > 0
  ELSE a.v < b.v

FEq(a, b) == ~IsNaN(a) /\ ~IsNaN(b) /\ a = b

FLe(a, b) == FLt(a, b) \/ FEq(a, b)

\* Python's built-in max(a, b): b only when b > a
PyMax(a, b) == IF FLt(a, b) THEN b ELSE a

Zero == Fin(0)
Half == Fin(Scale \div 2)
One == Fin(Scale)


\* ------------------------------------------------------------------ arrays
\* A numpy array of shape (rows, cols) is a function from the column index
\* 0..cols-1 to the column vector (a sequence of rows floats).
NumVars == 2

NCols(u) == Cardinality(DOMAIN u)
NRows(u) == Len(u[0])
Shape(u) == <<NRows(u), NCols(u)>>

\* np.zeros((r, c))
zeros(r, c) == [j \in 0 .. c - 1 |-> [i \in 1 .. r |-> Zero]]

\* numpy broadcasting of src into the shape of dst
Broadcastable(dst, src) ==
  /\ NRows(src) = NRows(dst) \/ NRows(src) = 1
  /\ NCols(src) = NCols(dst) \/ NCols(src) = 1

\* np.copyto(dst, src): the new contents of dst
copyto(dst, src) ==
  [j \in DOMAIN dst |->
     [i \in 1 .. NRows(dst) |->
        src[IF NCols(src) = 1 THEN 0 ELSE j][IF NRows(src) = 1 THEN 1 ELSE i]]]

\* u[:, j] = col, in place
SetCol(u, j, col) == [u EXCEPT ![j] = col]

VAdd(a, b) == [i \in 1 .. Len(a) |-> FAdd(a[i], b[i])]
VSub(a, b) == [i \in 1 .. Len(a) |-> FSub(a[i], b[i])]
VScale(c, a) == [i \in 1 .. Len(a) |-> FMul(c, a[i])]
VDiv(a, c) == [i \in 1 .. Len(a) |-> FDiv(a[i], c)]

RECURSIVE Dot(_, _, _)
Dot(row, v, n) ==
  IF n = 1 THEN FMul(row[1], v[1])
  ELSE FAdd(Dot(row, v, n - 1), FMul(row[n], v[n]))

\* np.matmul(J, v)
matmul(J, v) == [r \in 1 .. Len(J) |-> Dot(J[r], v, Len(v))]

\* ------------------------------------------------------------ grid, model
\* Grid coordinates X[0..nx] with uniform spacing dx.
GridX(g) == [i \in 0 .. g.nx |-> Fin(i * g.dx.v)]

\* model.jacobian(x)
jacobian(m, x) ==
  CASE m.jac = "zero" -> << <<Zero, Zero>>, <<Zero, Zero>> >>
    [] m.jac = "wave" -> << <<Zero, One>>, <<One, Zero>> >>
    [] OTHER -> << <<One, Zero>>, <<Zero, Half>> >>

\* model.jacEigenvalues(x)
jacEigenvalues(m, x) ==
  CASE m.eig = "unit" -> <<One, FNeg(One)>>
    [] m.eig = "fast" -> <<Fin(2 * Scale), Fin(-2 * Scale)>>
    [] m.eig = "slow" -> <<Fin(1), Fin(-1)>>
    [] m.eig = "three" -> <<Fin(3 * Scale), Fin(-3 * Scale)>>
    [] m.eig = "edge" -> IF x = m.xR THEN <<Half, FNeg(One)>> ELSE <<Zero, Zero>>
    [] m.eig = "zero" -> <<Zero, Zero>>
    [] OTHER -> IF x = Zero THEN <<One, PInf>> ELSE <<One, FNeg(One)>>

\* model.applyLeftBC(x, t, dx, dt, u) and model.applyRightBC(x, t, dx, dt, u)
applyLeftBC(m, x, tt, dxx, dtt, u) ==
  IF m.bc = "hold" THEN u[0] ELSE <<tt, dtt>>

applyRightBC(m, x, tt, dxx, dtt, u) ==
  IF m.bc = "hold" THEN u[NCols(u) - 1] ELSE <<FNeg(tt), dxx>>


\* ------------------------------------------------------- numerical kernels
\* np.amax(v): the largest entry, nan if any entry is nan
RECURSIVE amax(_, _)
amax(v, n) ==
  IF n = 1 THEN v[1]
  ELSE LET r == amax(v, n - 1)
       IN IF IsNaN(r) \/ IsNaN(v[n]) THEN NaN
          ELSE IF FLt(r, v[n]) THEN v[n] ELSE r

fabs(v) == [i \in 1 .. Len(v) |-> FAbs(v[i])]

\* the loop "for x in X" that accumulates lambda_max, from index i on
RECURSIVE LambdaLoop(_, _, _, _)
LambdaLoop(m, XX, i, lm) ==
  IF i \notin DOMAIN XX THEN lm
  ELSE LambdaLoop(m, XX, i + 1,
                  PyMax(lm, amax(fabs(jacEigenvalues(m, XX[i])), NumVars)))

\* the loop started at X[1]: the first coordinate is left out
LambdaMax_SkipFirst(m, XX) == LambdaLoop(m, XX, 1, Zero)

LambdaMax(m, XX) == LambdaLoop(m, XX, 0, Zero)

\* dx / lambda_max raises ZeroDivisionError for Python floats
DivRaises(g, lam) == lam = Zero /\ ~g.npdx

\* dt = self.epsilon * (dx / lambda_max); numpy gives inf for dx / 0.0
CflDt(eps, g, lam) ==
  FMul(eps, IF lam = Zero THEN PInf ELSE FDiv(g.dx, lam))

\* if t_final - t <= dt: dt = t_final - t
Clamp(d, tt, tf) == IF FLe(FSub(tf, tt), d) THEN FSub(tf, tt) ELSE d

\* while t < t_final
LoopCond(tt, tf) == FLt(tt, tf)

\* range(1, nx)
Interior(nx) == 1 .. nx - 1

\* the predictor or corrector loop indexes a column the buffers do not have
IndexRaises(nx, u) == \E i \in Interior(nx) : i + 1 > NCols(u) - 1

PredCol(m, XX, dxx, dtt, up, i) ==
  LET dudx == VDiv(VSub(up[i + 1], up[i]), dxx)
      J == jacobian(m, XX[i])
  IN VSub(up[i], VScale(dtt, matmul(J, dudx)))

Predictor(m, XX, nx, dxx, dtt, up, upred) ==
  [j \in DOMAIN upred |->
     IF j \in Interior(nx) THEN PredCol(m, XX, dxx, dtt, up, j) ELSE upred[j]]

\* the corrector without the factor 0.5 in uMid
CorrCol_NoHalf(m, XX, dxx, dtt, up, upred, i) ==
  LET dudx == VDiv(VSub(upred[i], upred[i - 1]), dxx)
      J == jacobian(m, XX[i])
      uMid == VAdd(upred[i], up[i])
  IN VSub(uMid, VScale(FMul(Half, dtt), matmul(J, dudx)))

CorrCol(m, XX, dxx, dtt, up, upred, i) ==
  LET dudx == VDiv(VSub(upred[i], upred[i - 1]), dxx)
      J == jacobian(m, XX[i])
      uMid == VScale(Half, VAdd(upred[i], up[i]))
  IN VSub(uMid, VScale(FMul(Half, dtt), matmul(J, dudx)))

Corrector(m, XX, nx, dxx, dtt, up, upred, ucur) ==
  [j \in DOMAIN ucur |->
     IF j \in Interior(nx) THEN CorrCol(m, XX, dxx, dtt, up, upred, j)
     ELSE ucur[j]]

\* a run that keeps the entries of the previous run
clear_Keep(h) == h

\* self.history.clear()
clear(h) == <<>>

\* the boundary routines handed the partially updated u_cur
BCState_Current(up, uc) == uc

\* the state handed to the boundary routines
BCState(up, uc) == up

\* history.append((t, u_cur)) without the deep copy
Snapshot_Alias(fresh, uc) == uc

\* what history.append stores: deepcopy(u_cur), a fresh buffer
Snapshot(fresh, uc) == fresh


\* ------------------------------------------------------------------- state
VARIABLES
  grid,        \* self.grid: [nx, dx, npdx]; npdx: dx is a numpy scalar
  globalGrid,  \* nx of the module-level name "grid", -1 when it is undefined
  model,       \* self.model
  epsilon,     \* self.epsilon
  history,     \* self.history: sequence of [time, state], state a buffer id
  heap,        \* the arrays, by buffer id
  script,      \* the calls of run() the caller still has to make
  pc,          \* position inside run(), "idle" outside
  exc,         \* the exception the last call of run() raised, or "none"
  t_init, t_final, u_init,
  t, n_steps, u_prev, u_pred, u_cur, lambda_max, dt, t_step,
  bcLog,       \* the boundary calls of the current run, with their arguments
  stepLog,     \* lambda_max, CFL dt and used dt of each step of the current run
  events,      \* the stages of the current iteration, in order
  completed    \* the calls that returned normally, with the history they left

locals == <<t_init, t_final, u_init, t, n_steps, u_prev, u_pred, u_cur,
            lambda_max, dt, t_step>>
ghosts == <<bcLog, stepLog, events, completed>>
setup == <<grid, globalGrid, model, epsilon>>
vars == <<setup, history, heap, script, pc, exc, locals, ghosts>>

X == GridX(grid)
nx == grid.nx
dx == grid.dx

\* the (time, values) pairs of a history
HistVal(h, hp) == [k \in 1 .. Len(h) |-> <<h[k].time, hp[h[k].state]>>]

\* __init__: records grid, model and epsilon and creates an empty history
Construct(g, gg, m, eps, calls) ==
  /\ grid = g /\ globalGrid = gg /\ model = m /\ epsilon = eps
  /\ history = <<>> /\ heap = <<>> /\ script = calls
  /\ pc = "idle" /\ exc = "none"
  /\ t_init = Zero /\ t_final = Zero /\ u_init = 0
  /\ t = Zero /\ n_steps = 0 /\ u_prev = 0 /\ u_pred = 0 /\ u_cur = 0
  /\ lambda_max = Zero /\ dt = Zero /\ t_step = Zero
  /\ bcLog = <<>> /\ stepLog = <<>> /\ events = <<>> /\ completed = <<>>

\* run(), lines 41-82: allocate the buffers, copy u_init, seed the history
RunEntry ==
  /\ pc = "idle"
  /\ script # <<>>
  /\ LET call == Head(script)
         base == Len(heap)
         src == call.u_init
         buf == zeros(NumVars, globalGrid + 1)
     IN /\ script' = Tail(script)
        /\ t_init' = call.t_init
        /\ t_final' = call.t_final
        /\ u_init' = base + 1
        /\ UNCHANGED <<setup, completed, lambda_max, dt, t_step>>
        /\ IF globalGrid < 0
           THEN /\ exc' = "NameError"
                /\ pc' = "idle"
                /\ heap' = Append(heap, src)
                /\ UNCHANGED <<history, t, n_steps, u_prev, u_pred, u_cur,
                               bcLog, stepLog, events>>
           ELSE IF ~Broadcastable(buf, src)
           THEN /\ exc' = "ValueError"
                /\ pc' = "idle"
                /\ heap' = Append(heap, src)
                /\ UNCHANGED <<history, t, n_steps, u_prev, u_pred, u_cur,
                               bcLog, stepLog, events>>
           ELSE /\ exc' = "none"
                /\ bcLog' = <<>> /\ stepLog' = <<>> /\ events' = <<>>
                /\ pc' = "loop"
                /\ u_prev' = base + 2
                /\ u_pred' = base + 3
                /\ u_cur' = base + 4
                /\ heap' = heap \o <<src, buf, buf, copyto(buf, src),
                                     copyto(buf, src)>>
                /\ t' = call.t_init
                /\ n_steps' = 0
                /\ history' = Append(clear(history),
                                     [time |-> call.t_init,
                                      state |-> Snapshot(base + 5, base + 4)])

\* lines 87-92: the loop test, then n_steps + 1 and u_prev <- u_cur
LoopTest ==
  /\ pc = "loop"
  /\ LoopCond(t, t_final) => n_steps < MaxSteps
  /\ IF LoopCond(t, t_final)
     THEN /\ n_steps' = n_steps + 1
          /\ heap' = [heap EXCEPT ![u_prev] = copyto(heap[u_prev], heap[u_cur])]
          /\ pc' = "cfl"
          /\ events' = <<>>
          /\ UNCHANGED <<completed, exc>>
     ELSE /\ pc' = "idle"
          /\ exc' = "none"
          /\ completed' = Append(completed,
                 [t_init |-> t_init, t_final |-> t_final,
                  u_init |-> heap[u_init], n_steps |-> n_steps,
                  hist |-> HistVal(history, heap)])
          /\ UNCHANGED <<n_steps, heap, events>>
  /\ UNCHANGED <<setup, history, script, t_init, t_final, u_init, t,
                 u_prev, u_pred, u_cur, lambda_max, dt, t_step, bcLog, stepLog>>

\* lines 95-109: CFL stepsize, final-step clamp, t_step
Cfl ==
  /\ pc = "cfl"
  /\ LET lam == LambdaMax(model, X)
         cfl == CflDt(epsilon, grid, lam)
         d == Clamp(cfl, t, t_final)
     IN /\ lambda_max' = lam
        /\ IF DivRaises(grid, lam)
           THEN /\ exc' = "ZeroDivisionError"
                /\ pc' = "idle"
                /\ UNCHANGED <<dt, t_step, stepLog, events>>
           ELSE /\ dt' = d
                /\ t_step' = FAdd(t, d)
                /\ pc' = "pred"
                /\ stepLog' = Append(stepLog,
                       [t |-> t, lam |-> lam, cfl |-> cfl, dt |-> d])
                /\ events' = Append(events, "cfl")
                /\ UNCHANGED exc
  /\ UNCHANGED <<setup, history, heap, script, t_init, t_final, u_init, t,
                 n_steps, u_prev, u_pred, u_cur, bcLog, completed>>

\* lines 112-115: predictor step
Pred ==
  /\ pc = "pred"
  /\ IF IndexRaises(nx, heap[u_prev])
     THEN /\ exc' = "IndexError"
          /\ pc' = "idle"
          /\ UNCHANGED <<heap, events>>
     ELSE /\ heap' = [heap EXCEPT ![u_pred] =
                 Predictor(model, X, nx, dx, dt, heap[u_prev], heap[u_pred])]
          /\ pc' = "leftbc"
          /\ events' = Append(events, "predictor")
          /\ UNCHANGED exc
  /\ UNCHANGED <<setup, history, script, locals, bcLog, stepLog, completed>>

\* lines 118-121: left boundary condition into u_cur[:,0] and u_pred[:,0]
LeftBC ==
  /\ pc = "leftbc"
  /\ LET arg == BCState(u_prev, u_cur)
         v == applyLeftBC(model, X[0], t_step, dx, dt, heap[arg])
     IN /\ heap' = [heap EXCEPT ![u_cur] = SetCol(heap[u_cur], 0, v),
                                ![u_pred] = SetCol(heap[u_pred], 0, v)]
        /\ bcLog' = Append(bcLog,
              [side |-> "left", step |-> n_steps, x |-> X[0], t |-> t_step,
               dx |-> dx, dt |-> dt, u |-> arg, uval |-> heap[arg]])
  /\ pc' = "corr"
  /\ events' = Append(events, "left")
  /\ UNCHANGED <<setup, history, script, exc, locals, stepLog, completed>>

\* lines 124-128: corrector step
Corr ==
  /\ pc = "corr"
  /\ heap' = [heap EXCEPT ![u_cur] =
         Corrector(model, X, nx, dx, dt, heap[u_prev], heap[u_pred],
                   heap[u_cur])]
  /\ pc' = "rightbc"
  /\ events' = Append(events, "corrector")
  /\ UNCHANGED <<setup, history, script, exc, locals, bcLog, stepLog,
                 completed>>

\* lines 131-133: right boundary condition into u_cur[:,-1]
RightBC ==
  /\ pc = "rightbc"
  /\ LET arg == BCState(u_prev, u_cur)
         v == applyRightBC(model, X[nx], t_step, dx, dt, heap[arg])
     IN /\ heap' = [heap EXCEPT ![u_cur] =
               SetCol(heap[u_cur], NCols(heap[u_cur]) - 1, v)]
        /\ bcLog' = Append(bcLog,
              [side |-> "right", step |-> n_steps, x |-> X[nx], t |-> t_step,
               dx |-> dx, dt |-> dt, u |-> arg, uval |-> heap[arg]])
  /\ pc' = "store"
  /\ events' = Append(events, "right")
  /\ UNCHANGED <<setup, history, script, exc, locals, stepLog, completed>>

\* lines 136-139: advance the time and store the results
Store ==
  /\ pc = "store"
  /\ t' = t_step
  /\ heap' = Append(heap, heap[u_cur])
  /\ history' = Append(history,
         [time |-> t_step, state |-> Snapshot(Len(heap) + 1, u_cur)])
  /\ pc' = "loop"
  /\ events' = Append(events, "store")
  /\ UNCHANGED <<setup, script, exc, t_init, t_final, u_init, n_steps,
                 u_prev, u_pred, u_cur, lambda_max, dt, t_step, bcLog,
                 stepLog, completed>>

Next ==
  \/ RunEntry
  \/ LoopTest
  \/ Cfl
  \/ Pred
  \/ LeftBC
  \/ Corr
  \/ RightBC
  \/ Store


\* ------------------------------------------------------ initial conditions
Eps == Fin(Scale \div 4)

Grids == {[nx |-> n, dx |-> One, npdx |-> b] : n \in 2 .. MaxNx, b \in BOOLEAN}

Models(g, jacs, eigs) ==
  {[jac |-> j, eig |-> e, bc |-> b, xR |-> GridX(g)[g.nx]] :
     j \in jacs, e \in eigs, b \in {"hold", "time"}}

\* initial values of shape (NumVars, n + 1)
Ramp(n) == [j \in 0 .. n |-> <<Fin(Scale * j), One>>]
Bump(n) == [j \in 0 .. n |-> <<IF j = 1 THEN One ELSE Zero, Fin(2)>>]
\* initial values of other shapes: (1, n + 1), (NumVars, 1), (NumVars, n)
RowVec(n) == [j \in 0 .. n |-> <<Fin(j)>>]
ColVec == [j \in 0 .. 0 |-> <<One, Zero>>]
Short(n) == [j \in 0 .. n - 1 |-> <<One, Zero>>]

TimePairs ==
  { <<Fin(0), Fin(6)>>, <<Fin(0), Fin(5)>>, <<Fin(0), Fin(10)>>,
    <<Fin(6), Fin(10)>>, <<Fin(3), Fin(14)>>, <<Fin(-16), Fin(-1)>>,
    <<Fin(4), Fin(4)>>, <<Fin(6), Fin(2)>> }

Calls(times, inits) ==
  {[t_init |-> p[1], t_final |-> p[2], u_init |-> u] :
     p \in times, u \in inits}

\* one call, matching global grid, every model, every time range
InitMain ==
  \E g \in Grids :
    \E m \in Models(g, {"zero", "wave", "diag"},
                    {"unit", "fast", "slow", "three", "edge", "zero", "inf"}) :
      \E c \in Calls(TimePairs, {Ramp(g.nx), Bump(g.nx)}) :
        Construct(g, g.nx, m, Eps, <<c>>)

\* one or two calls, any global grid, any shape of u_init
InitShape ==
  \E g \in Grids :
    \E gg \in {g.nx, g.nx - 1, g.nx + 1, -1} :
      \E m \in Models(g, {"wave"}, {"unit"}) :
        \E c \in Calls({<<Fin(0), Fin(4)>>},
                       {Ramp(g.nx), RowVec(g.nx), ColVec, Short(g.nx),
                        Ramp(g.nx + 1)}) :
          \E d \in Calls({<<Fin(0), Fin(2)>>}, {Bump(g.nx), Short(g.nx)}) :
            \E two \in BOOLEAN :
              Construct(g, gg, m, Eps, IF two THEN <<d, c>> ELSE <<c>>)

\* two calls on one stepper
InitRerun ==
  \E g \in Grids :
    \E m \in Models(g, {"zero", "wave"}, {"unit", "zero", "fast"}) :
      \E c1, c2 \in Calls({<<Fin(0), Fin(4)>>, <<Fin(2), Fin(5)>>,
                           <<Fin(6), Fin(10)>>, <<Fin(4), Fin(4)>>},
                          {Ramp(g.nx), Bump(g.nx)}) :
        Construct(g, g.nx, m, Eps, <<c1, c2>>)

Init == InitMain \/ InitShape \/ InitRerun

Spec == Init /\ [][Next]_vars


\* ---------------------------------------------------------------- claims
\* the last call of run() returned normally
Returned == pc = "idle" /\ exc = "none" /\ completed # <<>>

\* the last call of run() got past its entry: history, the logs and the
\* locals describe that call
Entered == u_init # 0 /\ exc \notin {"NameError", "ValueError"}

Times == [k \in 1 .. Len(history) |-> history[k].time]

Increasing(ts) == \A k \in 1 .. Len(ts) - 1 : FLt(ts[k], ts[k + 1])

GoodLambda(lam) == IsFin(lam) /\ lam.v > 0

\* C1: a run with t_init < t_final that returns leaves strictly increasing
\* times from t_init to exactly t_final, n_steps + 1 of them, none beyond
\* t_final.
C1_Original ==
  (Returned /\ FLt(t_init, t_final)) =>
     /\ Increasing(Times)
     /\ Len(history) = n_steps + 1
     /\ history[1].time = t_init
     /\ history[Len(history)].time = t_final
     /\ \A k \in 1 .. Len(history) : FLe(history[k].time, t_final)

\* C6: with t_init < t_final and a finite positive lambda_max every step
\* moves t forward (the loop does not stall) and the run ends with
\* t = t_final exactly (no overshoot).
C6_Original ==
  (Entered /\ FLt(t_init, t_final) /\ GoodLambda(LambdaMax(model, X))) =>
     /\ (pc \in {"pred", "leftbc", "corr", "rightbc", "store"}
           => FLt(t, t_step))
     /\ (Returned => t = t_final)

\* C7: a call with t_init >= t_final fails at entry with InvalidRangeError.
C7_Original ==
  (u_init # 0 /\ ~FLt(t_init, t_final)) =>
     (pc = "idle" /\ exc = "InvalidRangeError")

\* C8: no step is taken with a zero or non-finite lambda_max; the run stops
\* with DivergentStepError instead.
C8_Original ==
  /\ \A k \in 1 .. Len(stepLog) : GoodLambda(stepLog[k].lam)
  /\ (pc = "idle" /\ ~GoodLambda(lambda_max) /\ n_steps > 0)
        => exc = "DivergentStepError"

\* C9: every recorded state has shape (numVars, self.grid.nx + 1), and a
\* u_init of another shape is rejected with ShapeMismatchError at entry
\* (stated for a stepper whose grid is the module-level grid, as in the
\* script of lines 150-163).
C9_Original ==
  globalGrid = nx =>
    /\ \A k \in 1 .. Len(history) :
          Shape(heap[history[k].state]) = <<NumVars, nx + 1>>
    /\ (u_init # 0 /\ Shape(heap[u_init]) # <<NumVars, nx + 1>>)
          => (pc = "idle" /\ exc = "ShapeMismatchError")


\* ----------------------------------------------------- boundary calls (C2)
Count(side) == Cardinality({k \in 1 .. Len(bcLog) : bcLog[k].side = side})

Stages == <<"cfl", "predictor", "left", "corrector", "right", "store">>

\* C2: applyLeftBC and applyRightBC are each called exactly once per
\* completed step, left before the corrector and right after it, with the
\* advanced time t + dt, the step's dx and dt, and u_prev holding the state
\* of the preceding history entry.
C2_BoundaryCalls ==
  /\ history = <<>> => bcLog = <<>>
  /\ history # <<>> =>
       LET H == Len(history) - 1
       IN /\ pc \in {"idle", "loop", "cfl", "pred", "leftbc"}
               => Count("left") = H /\ Count("right") = H
          /\ pc \in {"corr", "rightbc"}
               => Count("left") = H + 1 /\ Count("right") = H
          /\ pc = "store" => Count("left") = H + 1 /\ Count("right") = H + 1
  /\ Returned => Count("left") = n_steps /\ Count("right") = n_steps
  /\ Len(events) <= Len(Stages) /\ events = SubSeq(Stages, 1, Len(events))
  /\ \A k \in 1 .. Len(bcLog) :
       LET e == bcLog[k]
           s == e.step
       IN /\ s = (k + 1) \div 2
          /\ e.side = (IF k % 2 = 1 THEN "left" ELSE "right")
          /\ e.x = (IF k % 2 = 1 THEN X[0] ELSE X[nx])
          /\ s <= Len(stepLog) /\ s <= Len(history)
          /\ stepLog[s].t = history[s].time
          /\ e.t = FAdd(history[s].time, stepLog[s].dt)
          /\ s + 1 <= Len(history) => e.t = history[s + 1].time
          /\ e.dx = dx
          /\ e.dt = stepLog[s].dt
          /\ e.u = u_prev
          /\ e.uval = heap[history[s].state]

C2_Witness ==
  /\ Returned /\ n_steps >= 2 /\ Len(bcLog) = 2 * n_steps
  /\ model.bc = "time" /\ model.jac = "wave"
  /\ heap[history[2].state] # heap[history[1].state]

\* ------------------------------------------------------- snapshots (C3)
NoSharing ==
  /\ \A k, l \in 1 .. Len(history) :
        k # l => history[k].state # history[l].state
  /\ \A k \in 1 .. Len(history) :
        history[k].state \notin {u_prev, u_pred, u_cur, u_init}
  /\ (Entered /\ history # <<>>
        /\ Shape(heap[u_init]) = Shape(heap[history[1].state]))
        => heap[history[1].state] = heap[u_init]

\* C3: a recorded entry is never changed by the later in-place updates of
\* the working buffers, no two entries share a buffer, and entry 0 holds
\* the values of u_init in a buffer of its own.
C3_SnapshotsIndependent ==
  [][/\ NoSharing'
     /\ \A k \in 1 .. Len(history) :
          (k <= Len(history') /\ history'[k] = history[k])
             => heap'[history'[k].state] = heap[history[k].state]]_vars

C3_Witness ==
  /\ pc = "loop" /\ Len(history) >= 3
  /\ heap[u_cur] # heap[history[1].state]
  /\ heap[u_prev] # heap[history[2].state]
  /\ heap[history[1].state] = heap[u_init]

\* ------------------------------------------------------ repeated runs (C4)
SameArgs(a, b) ==
  a.t_init = b.t_init /\ a.t_final = b.t_final /\ a.u_init = b.u_init

\* C4: after a completed call the history holds exactly the entries of that
\* call, starting with (t_init, u_init), and calls with identical arguments
\* leave identical histories.
C4_Rerun ==
  /\ Returned =>
       /\ Len(history) = n_steps + 1
       /\ Len(stepLog) = n_steps
       /\ history[1].time = t_init
       /\ Shape(heap[u_init]) = Shape(heap[history[1].state])
            => heap[history[1].state] = heap[u_init]
       /\ \A k \in 1 .. n_steps :
            /\ stepLog[k].t = history[k].time
            /\ history[k + 1].time = FAdd(stepLog[k].t, stepLog[k].dt)
       /\ completed[Len(completed)].hist = HistVal(history, heap)
  /\ \A i, j \in 1 .. Len(completed) :
       SameArgs(completed[i], completed[j])
          => completed[i].hist = completed[j].hist

C4_Witness ==
  /\ Returned /\ Len(completed) = 2 /\ n_steps >= 2
  /\ SameArgs(completed[1], completed[2])
  /\ completed[1].hist = completed[2].hist

\* ---------------------------------------------------- zero Jacobian (C5)
ZeroRun ==
  /\ Entered /\ history # <<>> /\ model.jac = "zero"
  /\ globalGrid = nx /\ Shape(heap[u_init]) = <<NumVars, nx + 1>>

\* C5 as stated: with a zero Jacobian every recorded state equals u_init at
\* every node 0..nx (stated for a finite positive lambda_max).
C5_Original ==
  (ZeroRun /\ GoodLambda(LambdaMax(model, X))) =>
     \A k \in 1 .. Len(history) : \A j \in 0 .. nx :
        heap[history[k].state][j] = heap[u_init][j]

\* C5 amended: with a zero Jacobian every recorded state equals u_init at
\* every interior node 1..nx-1.
C5_InteriorUnchanged ==
  ZeroRun => \A k \in 1 .. Len(history) : \A j \in 1 .. nx - 1 :
                heap[history[k].state][j] = heap[u_init][j]

C5_Witness ==
  /\ ZeroRun /\ Returned /\ n_steps >= 2 /\ model.bc = "time"
  /\ heap[u_init][1][1] # Zero
  /\ heap[history[Len(history)].state][0] # heap[u_init][0]

\* --------------------------------------------------------- timestep (C10)
Eigs == {FAbs(jacEigenvalues(model, X[i])[r]) : i \in 0 .. nx, r \in 1 .. NumVars}

IsMaxEig(lam) ==
  \/ lam \in Eigs /\ \A e \in Eigs : FLe(e, lam)
  \/ lam = Zero /\ \A e \in Eigs : e = Zero

Clamped(s) == FLe(FSub(t_final, s.t), s.cfl)

\* epsilon * (dx / lam) is computed without rounding
ExactCfl(lam) ==
  LET n == dx.v * Scale
      q == n \div lam.v
      d == epsilon.v * q
  IN /\ n % lam.v = 0 /\ Representable(q)
     /\ d % Scale = 0 /\ Representable(d \div Scale)

StepRule(s) ==
  /\ IsMaxEig(s.lam)
  /\ s.cfl = (IF s.lam = Zero THEN PInf ELSE FMul(epsilon, FDiv(dx, s.lam)))
  /\ s.dt = (IF Clamped(s) THEN FSub(t_final, s.t) ELSE s.cfl)
  /\ FLe(s.dt, s.cfl)

\* C10 as stated: each step uses dt_cfl = epsilon * dx / lambda_max or the
\* clamped t_final - t, never more than dt_cfl, and every unclamped step has
\* dt * lambda_max == epsilon * dx (stated for a finite positive lambda_max).
C10_Original ==
  \A k \in 1 .. Len(stepLog) :
    GoodLambda(stepLog[k].lam) =>
      /\ StepRule(stepLog[k])
      /\ ~Clamped(stepLog[k])
           => FMul(stepLog[k].dt, stepLog[k].lam) = FMul(epsilon, dx)

\* C10 amended: the same step rule, with dt * lambda_max == epsilon * dx
\* claimed only where epsilon * (dx / lambda_max) is computed exactly.
C10_Timestep ==
  \A k \in 1 .. Len(stepLog) :
    /\ StepRule(stepLog[k])
    /\ (~Clamped(stepLog[k]) /\ GoodLambda(stepLog[k].lam)
          /\ ExactCfl(stepLog[k].lam))
         => FMul(stepLog[k].dt, stepLog[k].lam) = FMul(epsilon, dx)

C10_Witness ==
  /\ Returned /\ Len(stepLog) >= 3 /\ model.eig = "edge"
  /\ ~Clamped(stepLog[1]) /\ ExactCfl(stepLog[1].lam)
  /\ FLt(FSub(t_final, stepLog[Len(stepLog)].t), stepLog[Len(stepLog)].cfl)

====
